---------------------------- MODULE Spec2Model ----------------------------
(***************************************************************************)
(* Plate-Analyzer: the section statistics and normalisation code of        *)
(* src/src/analysis.py (analyze_plate, analyze_all_plates) and the section *)
(* conversion of src/src/ui/app.py (PlateMaskApp.analyze_all).             *)
(*                                                                         *)
(* Arithmetic.  The code computes in float64.  The model computes in exact *)
(* rationals with one extra value NaN, which is what the code's formulas   *)
(* mean; rounding is not modelled.  A mean is a Num [nan, n, d] (n/d in    *)
(* lowest terms, d > 0).  A standard deviation or standard error is a      *)
(* Root [nan, neg, n, d]: the signed square root (-1)^neg * sqrt(n/d), so  *)
(* that np.sqrt, squaring and division by a mean stay exact.               *)
(***************************************************************************)
EXTENDS Integers, Sequences, FiniteSets, TLC

(***************************************************************************)
(* Bounds of the model.                                                    *)
(***************************************************************************)
\* well readings are NaN or one of 0 .. MaxReading
MaxReading == 2
\* section means of a built series are NaN or one of -1 .. MaxMean
MaxMean == 2
\* a data frame holds at most MaxRecords records
MaxRecords == 3

(***************************************************************************)
(* State: the locals of the row loop and of the series code.               *)
(***************************************************************************)
VARIABLES
    pc,                 \* position in the loop body / in the series code
    fn,                 \* the entry point running
    data,               \* row['data'], the raw grid
    mask,               \* mask_map[key]
    neg_ctrl_mask,      \* neg_ctrl_mask_map[key]
    sections,           \* self.sections: the well set of each section, in order
    subtract_neg_ctrl,  \* the option
    data_array,         \* the grid the sections are computed from
    neg_ctrl_avg,
    neg_ctrl_std,
    masked_data,
    results,            \* sec_means / sec_stds of this row, by section index
    use_percentage,     \* the option
    res_df,             \* the built series; percentages once they are applied
    orig_df,            \* res_df.copy() taken before any normalisation
    norm_df,            \* the series normalised with S1
    debug_log,          \* rows logged "No se puede normalizar: S1 es NaN o cero"
    df_rows,            \* df: the parsed records, in input order
    keys,               \* the plate-assay keys to analyse, in order
    key_index,          \* position of the loop "for key in keys"
    sub,                \* the records of the current key, sorted by hours
    sheets,             \* the series written per key (sheet of all_results.xlsx)
    op,                 \* the function or handler called last
    arg,                \* its argument
    prev_op,            \* the one called before it
    data_df,            \* the incoming rows (a DataFrame with the 12 columns)
    table,              \* plate_readings, in rowid order
    unique_df,          \* detect_internal_duplicates: its two results
    duplicates_df,
    non_conflicts,      \* find_conflicts: its three results
    incoming_conflicts,
    existing_conflicts,
    raised,             \* the exception the last database call raised, or "None"
    selected_key,       \* PlateMaskApp.selected_key, "None" when there is none
    section_wells,      \* PlateMaskApp.section_wells: a list of well sets
    mask_map,           \* PlateMaskApp.mask_map: key -> inclusion mask
    neg_ctrl_mask_map,  \* PlateMaskApp.neg_ctrl_mask_map: key -> control mask
    config_masks,       \* Config.masks
    config_neg_ctrl_masks, \* Config.neg_ctrl_masks
    config_sections,    \* Config.sections
    auto_exclude_orphaned, \* Config.auto_exclude_orphaned
    alias,              \* the groups of mask slots that are one array object
    edits,              \* the handler calls the editor has served
    recent_files,       \* Config.recent_files
    added               \* the paths add_recent_file was called with, in order

rowvars == <<data, mask, neg_ctrl_mask, sections, subtract_neg_ctrl,
             data_array, neg_ctrl_avg, neg_ctrl_std, masked_data, results>>

seriesvars == <<use_percentage, res_df, orig_df, norm_df, debug_log>>

keyvars == <<df_rows, keys, key_index, sub, sheets>>

callvars == <<op, arg, prev_op>>

dbvars == <<data_df, table, unique_df, duplicates_df, non_conflicts,
            incoming_conflicts, existing_conflicts, raised>>

editorvars == <<selected_key, section_wells, mask_map, neg_ctrl_mask_map,
                config_masks, config_neg_ctrl_masks, config_sections,
                auto_exclude_orphaned, alias, edits>>

recentvars == <<recent_files, added>>

\* the state of the application around the analysis
appvars == <<callvars, dbvars, editorvars, recentvars>>

vars == <<pc, fn, rowvars, seriesvars, keyvars, appvars>>

(***************************************************************************)
(* float64 values: exact rationals plus NaN                                *)
(***************************************************************************)
Abs(i) == IF i < 0 THEN -i ELSE i

RECURSIVE GCD(_, _)
GCD(a, b) == IF b = 0 THEN a ELSE GCD(b, a % b)

NaN == [nan |-> TRUE, n |-> 0, d |-> 1]

\* the float n/d, d # 0
Rat(n, d) ==
    LET g == GCD(Abs(n), Abs(d))
        s == IF d < 0 THEN -1 ELSE 1
    IN  [nan |-> FALSE, n |-> s * (n \div g), d |-> s * (d \div g)]

Int2Num(i) == Rat(i, 1)

IsNaN(x) == x.nan

\* x != 0 as numpy evaluates it: NaN != 0 is True
NonZero(x) == x.nan \/ x.n # 0

\* x < 0 as numpy evaluates it: NaN < 0 is False
Negative(x) == ~x.nan /\ x.n < 0

NumAdd(x, y) == IF x.nan \/ y.nan THEN NaN ELSE Rat(x.n * y.d + y.n * x.d, x.d * y.d)

NumSub(x, y) == IF x.nan \/ y.nan THEN NaN ELSE Rat(x.n * y.d - y.n * x.d, x.d * y.d)

NumMul(x, y) == IF x.nan \/ y.nan THEN NaN ELSE Rat(x.n * y.n, x.d * y.d)

\* x / y; every division of the code is guarded by y != 0 and not isnan(y),
\* except analyze_plate's percentage, whose guard lets NaN through (NaN result)
NumDiv(x, y) == IF x.nan \/ y.nan \/ y.n = 0 THEN NaN ELSE Rat(x.n * y.d, x.d * y.n)

(***************************************************************************)
(* Square roots: np.nanstd, np.sqrt and what is computed from them         *)
(***************************************************************************)
RootNaN == [nan |-> TRUE, neg |-> FALSE, n |-> 0, d |-> 1]

\* the float sgn * sqrt(n/d), n/d >= 0
Root(neg, n, d) ==
    LET q == Rat(n, d)
    IN  [nan |-> FALSE, neg |-> (neg /\ q.n # 0), n |-> q.n, d |-> q.d]

\* r ** 2
RootSq(r) == IF r.nan THEN NaN ELSE Rat(r.n, r.d)

\* r / np.sqrt(k), k > 0 an integer count
RootDivSqrt(r, k) == IF r.nan THEN RootNaN ELSE Root(r.neg, r.n, r.d * k)

\* np.sqrt(a**2 + b**2)
RootHypot(a, b) ==
    IF a.nan \/ b.nan THEN RootNaN
    ELSE LET q == NumAdd(RootSq(a), RootSq(b)) IN Root(FALSE, q.n, q.d)

\* r / x for a mean x, x # 0
RootDivNum(r, x) ==
    IF r.nan \/ x.nan \/ x.n = 0 THEN RootNaN
    ELSE Root((r.neg /\ x.n > 0) \/ (~r.neg /\ x.n < 0), r.n * x.d * x.d, r.d * x.n * x.n)

\* r * k for an integer k > 0
RootTimes(r, k) == IF r.nan THEN RootNaN ELSE Root(r.neg, r.n * k * k, r.d)


(***************************************************************************)
(* The plate.  The program's plate is 8 x 12 (rows 0..7, columns 0..11);   *)
(* the model checks a plate of PlateRows x PlateCols wells.  LastRow and   *)
(* LastCol are the literals analyze_all_plates clamps section limits to.   *)
(***************************************************************************)
PlateRows == {0}
PlateCols == {0, 1, 2}
Wells == PlateRows \X PlateCols
LastRow == 7
LastCol == 11

Readings == {NaN} \cup {Int2Num(v) : v \in 0 .. MaxReading}
Grids == [Wells -> Readings]
\* a mask holds 0 or 1 per well (app.py toggles between the two)
Masks == [Wells -> {0, 1}]

RECURSIVE SumOver(_, _)
\* sum of f[w] over the wells of S
SumOver(S, f) ==
    IF S = {} THEN Int2Num(0)
    ELSE LET w == CHOOSE x \in S : TRUE IN NumAdd(f[w], SumOver(S \ {w}, f))

\* arr[arr != 0]: the wells of S that survive the filter (NaN survives)
NonZeroWells(S, arr) == {w \in S : NonZero(arr[w])}

\* the entries np.nanmean / np.nanstd look at
NotNaNWells(S, arr) == {w \in S : ~IsNaN(arr[w])}

\* np.nanmean over the entries arr[w], w in S: NaN when all are NaN
NanMean(S, arr) ==
    LET V == NotNaNWells(S, arr)
    IN  IF V = {} THEN NaN ELSE NumDiv(SumOver(V, arr), Int2Num(Cardinality(V)))

\* np.nanstd (ddof = 0) over the entries arr[w], w in S: NaN when all are NaN
NanStd(S, arr) ==
    LET V  == NotNaNWells(S, arr)
        k  == Cardinality(V)
        s1 == SumOver(V, arr)
        s2 == SumOver(V, [w \in V |-> NumMul(arr[w], arr[w])])
        \* variance = (k * s2 - s1^2) / k^2
        q  == NumDiv(NumSub(NumMul(Int2Num(k), s2), NumMul(s1, s1)), Int2Num(k * k))
    IN  IF V = {} THEN RootNaN ELSE Root(FALSE, q.n, q.d)

\* data * mask, cell by cell (NaN * 0 is NaN)
TimesMask(d, m) == [w \in Wells |-> NumMul(d[w], Int2Num(m[w]))]

(***************************************************************************)
(* Negative-control subtraction of one timepoint                           *)
(***************************************************************************)
\* the two entry points of src/src/analysis.py
Functions == {"analyze_plate", "analyze_all_plates"}

\* mutant: only control wells that are also included count
ValidNegCtrls_Included(d, ncm) ==
    {w \in NonZeroWells(Wells, TimesMask(d, ncm)) : mask[w] = 1}

\* neg_ctrl_data[neg_ctrl_data != 0]
ValidNegCtrls(d, ncm) == NonZeroWells(Wells, TimesMask(d, ncm))

\* neg_ctrl_std: analyze_plate keeps np.nanstd, analyze_all_plates divides it
\* by np.sqrt(len(valid_neg_ctrls))
NegCtrlStd(f, d, ncm) ==
    LET arr   == TimesMask(d, ncm)
        valid == ValidNegCtrls(d, ncm)
    IN  IF f = "analyze_plate" THEN NanStd(valid, arr)
        ELSE RootDivSqrt(NanStd(valid, arr), Cardinality(valid))

\* data - neg_ctrl_avg; analyze_plate then sets data[data < 0] = 0,
\* analyze_all_plates does not
SubtractAvg(f, d, avg) ==
    [w \in Wells |->
        LET x == NumSub(d[w], avg)
        IN  IF f = "analyze_plate" /\ Negative(x) THEN Int2Num(0) ELSE x]

\* mutant: the subtract option is not read
NegCtrlStage_IgnoreFlag(f, d, ncm, subtract) ==
    LET arr   == TimesMask(d, ncm)
        valid == ValidNegCtrls(d, ncm)
        avg   == NanMean(valid, arr)
    IN  IF valid # {}
        THEN [data_array   |-> SubtractAvg(f, d, avg),
              neg_ctrl_avg |-> avg,
              neg_ctrl_std |-> NegCtrlStd(f, d, ncm)]
        ELSE [data_array   |-> d,
              neg_ctrl_avg |-> NaN,
              neg_ctrl_std |-> RootNaN]

\* the block "Restar controles negativos si esta habilitado":
\* the grid the sections are computed from, neg_ctrl_avg and neg_ctrl_std
NegCtrlStage(f, d, ncm, subtract) ==
    LET arr   == TimesMask(d, ncm)
        valid == ValidNegCtrls(d, ncm)
        avg   == NanMean(valid, arr)
    IN  IF subtract /\ valid # {}
        THEN [data_array   |-> SubtractAvg(f, d, avg),
              neg_ctrl_avg |-> avg,
              neg_ctrl_std |-> NegCtrlStd(f, d, ncm)]
        ELSE [data_array   |-> d,
              neg_ctrl_avg |-> NaN,
              neg_ctrl_std |-> RootNaN]

(***************************************************************************)
(* Sections                                                                *)
(***************************************************************************)
SetMin(S) == CHOOSE x \in S : \A y \in S : x <= y
SetMax(S) == CHOOSE x \in S : \A y \in S : x >= y

\* (min(rows), min(cols), max(rows), max(cols)) of a non-empty well list
BoundingBox(wells) ==
    LET rows == {w[1] : w \in wells}
        cols == {w[2] : w \in wells}
    IN  <<SetMin(rows), SetMin(cols), SetMax(rows), SetMax(cols)>>

RECURSIVE NonEmptyBoxes(_)
NonEmptyBoxes(secs) ==
    IF secs = <<>> THEN <<>>
    ELSE (IF Head(secs) = {} THEN <<>> ELSE <<BoundingBox(Head(secs))>>)
         \o NonEmptyBoxes(Tail(secs))

\* PlateMaskApp.analyze_all: the section_limits handed to analyze_all_plates
SectionLimits(secs) ==
    IF NonEmptyBoxes(secs) = <<>> THEN << <<0, 0, LastRow, LastCol>> >>
    ELSE NonEmptyBoxes(secs)

Min(a, b) == IF a < b THEN a ELSE b
Max(a, b) == IF a > b THEN a ELSE b

\* the wells of masked_data[r1:r2+1, c1:c2+1]; analyze_all_plates first clamps
\* the limits to 0..7 and 0..11, analyze_plate slices with them as given
SliceWells(f, lim) ==
    LET clamp == f = "analyze_all_plates"
        r1 == IF clamp THEN Max(0, Min(lim[1], LastRow)) ELSE lim[1]
        c1 == IF clamp THEN Max(0, Min(lim[2], LastCol)) ELSE lim[2]
        r2 == IF clamp THEN Max(0, Min(lim[3], LastRow)) ELSE lim[3]
        c2 == IF clamp THEN Max(0, Min(lim[4], LastCol)) ELSE lim[4]
    IN  {w \in Wells : r1 <= w[1] /\ w[1] <= r2 /\ c1 <= w[2] /\ w[2] <= c2}

\* valid_data = section_data[section_data != 0], as the wells it holds
ValidData(f, md, lim) == NonZeroWells(SliceWells(f, lim), md)

\* np.nanstd(valid_data) / np.sqrt(len(valid_data))
SectionStdErr(valid, md) ==
    RootDivSqrt(NanStd(valid, md), Cardinality(valid))

\* mutant: the control's error is not propagated into the section's
SectionStats_NoPropagation(f, md, lim, subtract, ncs) ==
    LET valid == ValidData(f, md, lim)
    IN  IF valid # {}
        THEN [mean |-> NanMean(valid, md), std |-> SectionStdErr(valid, md)]
        ELSE [mean |-> NaN, std |-> RootNaN]

\* mutant: a section without valid data reports 0 instead of NaN
SectionStats_ZeroWhenEmpty(f, md, lim, subtract, ncs) ==
    LET valid == ValidData(f, md, lim)
    IN  IF valid # {}
        THEN [mean |-> NanMean(valid, md),
              std  |-> IF subtract /\ ~ncs.nan
                       THEN RootHypot(SectionStdErr(valid, md), ncs)
                       ELSE SectionStdErr(valid, md)]
        ELSE [mean |-> Int2Num(0), std |-> Root(FALSE, 0, 1)]

\* sec_means[S] and sec_stds[S_std] of one section
SectionStats(f, md, lim, subtract, ncs) ==
    LET valid == ValidData(f, md, lim)
    IN  IF valid # {}
        THEN [mean |-> NanMean(valid, md),
              std  |-> IF subtract /\ ~ncs.nan
                       THEN RootHypot(SectionStdErr(valid, md), ncs)
                       ELSE SectionStdErr(valid, md)]
        ELSE [mean |-> NaN, std |-> RootNaN]

\* one row of results: every section of section_limits, in order
AllSectionStats(f, md, limits, subtract, ncs) ==
    [i \in 1 .. Len(limits) |->
        SectionStats(f, md, limits[i], subtract, ncs)]

(***************************************************************************)
(* One timepoint of the row loop ("Procesar cada punto de tiempo"):        *)
(* the inputs are one row's grid, the key's masks, the section editor's    *)
(* sections and the subtract option.                                       *)
(***************************************************************************)
\* no database call has been made
DbIdle ==
    /\ data_df = <<>>
    /\ table = <<>>
    /\ unique_df = <<>>
    /\ duplicates_df = <<>>
    /\ non_conflicts = <<>>
    /\ incoming_conflicts = <<>>
    /\ existing_conflicts = <<>>
    /\ raised = "None"

\* PlateMaskApp and Config as constructed, no file loaded
EditorIdle ==
    /\ selected_key = "None"
    /\ section_wells = <<>>
    /\ mask_map = <<>>
    /\ neg_ctrl_mask_map = <<>>
    /\ config_masks = <<>>
    /\ config_neg_ctrl_masks = <<>>
    /\ config_sections = <<>>
    /\ auto_exclude_orphaned = TRUE
    /\ alias = {}
    /\ edits = 0

RecentIdle ==
    /\ recent_files = <<>>
    /\ added = <<>>

NoCall ==
    /\ op = "None"
    /\ arg = <<>>
    /\ prev_op = "None"

\* the application around the analysis is not part of this specification
AppIdle == NoCall /\ DbIdle /\ EditorIdle /\ RecentIdle

\* the key loop is not part of this specification
KeyLoopIdle ==
    /\ df_rows = <<>>
    /\ keys = <<>>
    /\ key_index = 0
    /\ sub = <<>>
    /\ sheets = <<>>

\* section layouts of the section editor (each a list of well sets): a
\* partition, a non-rectangular section, two overlapping sections, no section,
\* and a section with a coordinate that is not on the 8 x 12 plate (column 12)
SectionLayouts ==
    { << {<<0, 0>>, <<0, 1>>}, {<<0, 2>>} >>,
      << {<<0, 0>>, <<0, 2>>} >>,
      << {<<0, 0>>, <<0, 1>>}, {<<0, 1>>, <<0, 2>>} >>,
      << >>,
      << {<<0, 1>>, <<0, 12>>} >> }

Init ==
    /\ pc = "row"
    /\ fn \in Functions
    /\ data \in Grids
    /\ mask \in Masks
    /\ neg_ctrl_mask \in Masks
    /\ sections \in SectionLayouts
    /\ subtract_neg_ctrl \in BOOLEAN
    /\ data_array = data
    /\ neg_ctrl_avg = NaN
    /\ neg_ctrl_std = RootNaN
    /\ masked_data = <<>>
    /\ results = <<>>
    /\ use_percentage = FALSE
    /\ res_df = <<>>
    /\ orig_df = <<>>
    /\ norm_df = <<>>
    /\ debug_log = {}
    /\ KeyLoopIdle
    /\ AppIdle

\* mutant: the subtraction works on row['data'] itself, not on a copy
SubtractNegControl_InPlace ==
    /\ pc = "row"
    /\ LET st == NegCtrlStage(fn, data, neg_ctrl_mask, subtract_neg_ctrl)
       IN  /\ data_array' = st.data_array
           /\ data' = st.data_array
           /\ neg_ctrl_avg' = st.neg_ctrl_avg
           /\ neg_ctrl_std' = st.neg_ctrl_std
    /\ pc' = "subtracted"
    /\ UNCHANGED <<fn, appvars, mask, neg_ctrl_mask, sections, subtract_neg_ctrl,
                   masked_data, results, seriesvars, keyvars>>

\* "Restar controles negativos si esta habilitado"
SubtractNegControl ==
    /\ pc = "row"
    /\ LET st == NegCtrlStage(fn, data, neg_ctrl_mask, subtract_neg_ctrl)
       IN  /\ data_array' = st.data_array
           /\ neg_ctrl_avg' = st.neg_ctrl_avg
           /\ neg_ctrl_std' = st.neg_ctrl_std
    /\ pc' = "subtracted"
    /\ UNCHANGED <<fn, appvars, data, mask, neg_ctrl_mask, sections, subtract_neg_ctrl,
                   masked_data, results, seriesvars, keyvars>>

\* "Aplicar mascara" and the loop over the sections
ComputeSections ==
    /\ pc = "subtracted"
    /\ masked_data' = TimesMask(data_array, mask)
    /\ results' = AllSectionStats(fn, masked_data', SectionLimits(sections),
                                  subtract_neg_ctrl, neg_ctrl_std)
    /\ pc' = "done"
    /\ UNCHANGED <<fn, appvars, data, mask, neg_ctrl_mask, sections, subtract_neg_ctrl,
                   data_array, neg_ctrl_avg, neg_ctrl_std, seriesvars, keyvars>>

Next == SubtractNegControl \/ ComputeSections

Spec == Init /\ [][Next]_vars

(***************************************************************************)
(* Properties of one timepoint (specification Spec)                        *)
(***************************************************************************)
\* the whole loop body as one function of its inputs: the row of results
RowResults(f, d, m, ncm, secs, subtract) ==
    LET st == NegCtrlStage(f, d, ncm, subtract)
    IN  AllSectionStats(f, TimesMask(st.data_array, m), SectionLimits(secs),
                        subtract, st.neg_ctrl_std)

\* control wells that hold a reading other than 0 (NaN is no reading)
ControlReadings == {w \in Wells : neg_ctrl_mask[w] = 1 /\ ~IsNaN(data[w]) /\ data[w].n # 0}

NoControlWell == \A w \in Wells : neg_ctrl_mask[w] = 0

\* C4: error propagation.  Once the sections of a timepoint are computed: if a
\* control baseline was subtracted (neg_ctrl_std is not NaN) every non-empty
\* section's reported standard error e satisfies
\* e^2 = sampleStdErr^2 + neg_ctrl_std^2, and if none was subtracted the
\* reported error is sampleStdErr itself, where sampleStdErr is
\* nanstd(valid_data) / sqrt(len(valid_data)).
C4_ErrorPropagation ==
    pc = "done" =>
        \A i \in 1 .. Len(results) :
            LET valid  == ValidData(fn, masked_data, SectionLimits(sections)[i])
                sample == SectionStdErr(valid, masked_data)
            IN  valid # {} =>
                    IF ~neg_ctrl_std.nan
                    THEN /\ RootSq(results[i].std)
                              = NumAdd(RootSq(sample), RootSq(neg_ctrl_std))
                         /\ ~results[i].std.neg
                    ELSE results[i].std = sample

\* C4 witness: the P4 case on the small plate: a baseline with non-zero error
\* was subtracted, a section's corrected values carry no noise of their own
\* (sample error 0), and its reported error is the control's error.
C4_Witness ==
    /\ pc = "done"
    /\ ~neg_ctrl_std.nan /\ neg_ctrl_std.n # 0
    /\ \E i \in 1 .. Len(results) :
          LET valid == ValidData(fn, masked_data, SectionLimits(sections)[i])
          IN  /\ valid # {}
              /\ SectionStdErr(valid, masked_data) = Root(FALSE, 0, 1)
              /\ results[i].std = neg_ctrl_std
              /\ \E w \in valid : masked_data[w] = NumSub(data[w], neg_ctrl_avg)

\* C5: section emptiness.  A section all of whose wells are excluded by the
\* inclusion mask, and any section with no value left after dropping zeros,
\* has mean NaN and standard error NaN, whatever its wells read (NaN included).
C5_SectionEmptiness ==
    pc = "done" =>
        \A i \in 1 .. Len(results) :
            LET slice == SliceWells(fn, SectionLimits(sections)[i])
            IN  (\/ \A w \in slice : mask[w] = 0
                 \/ ValidData(fn, masked_data, SectionLimits(sections)[i]) = {})
                => (IsNaN(results[i].mean) /\ results[i].std.nan)

\* C5 witness: a section whose wells are all excluded, one of them holding a
\* number and one of them NaN, on a plate where another well is included.
C5_Witness ==
    /\ pc = "done"
    /\ \E w \in Wells : mask[w] = 1 /\ ~IsNaN(data[w]) /\ data[w].n # 0
    /\ \E i \in 1 .. Len(results) :
          LET slice == SliceWells(fn, SectionLimits(sections)[i])
          IN  /\ \A w \in slice : mask[w] = 0
              /\ \E w \in slice : IsNaN(data[w])
              /\ \E w \in slice : ~IsNaN(data[w]) /\ data[w].n # 0
              /\ IsNaN(results[i].mean)

\* C6: no-correction identity.  With subtract_neg_ctrl = False the grid the
\* sections are computed from equals the raw grid cell for cell and
\* neg_ctrl_avg, neg_ctrl_std are NaN, for any grid and control mask.
C6_NoCorrectionIdentity ==
    (pc # "row" /\ ~subtract_neg_ctrl) =>
        /\ \A w \in Wells : data_array[w] = data[w]
        /\ IsNaN(neg_ctrl_avg)
        /\ neg_ctrl_std.nan

\* C6 witness: subtraction is off although a control well holds a reading
C6_Witness ==
    /\ pc = "subtracted"
    /\ ~subtract_neg_ctrl
    /\ ControlReadings # {}
    /\ data_array = data

\* C7 (as claimed): with an all-zero control mask, subtract_neg_ctrl = True
\* leaves the grid unchanged and the control outputs NaN, as with False.
C7_EmptyControlDegrades ==
    (pc # "row" /\ subtract_neg_ctrl /\ NoControlWell) =>
        /\ \A w \in Wells : data_array[w] = data[w]
        /\ IsNaN(neg_ctrl_avg)
        /\ neg_ctrl_std.nan

\* C8: baseline.  With subtraction on and a control well holding a non-zero
\* reading, neg_ctrl_avg is the mean of exactly the non-zero readings of the
\* control wells, taken from the raw grid whatever the inclusion mask says, and
\* analyze_all_plates subtracts it from every cell.  neg_ctrl_std too is a
\* function of the raw grid and the control mask alone: the population
\* deviation of those readings over sqrt(len(valid_neg_ctrls)), where
\* valid_neg_ctrls also counts every NaN cell of the grid.
C8_ControlBaseline ==
    (pc # "row" /\ subtract_neg_ctrl /\ ControlReadings # {}) =>
        /\ neg_ctrl_avg = NumDiv(SumOver(ControlReadings, data),
                                 Int2Num(Cardinality(ControlReadings)))
        /\ fn = "analyze_all_plates" =>
              /\ \A w \in Wells : data_array[w] = NumSub(data[w], neg_ctrl_avg)
              /\ neg_ctrl_std =
                    RootDivSqrt(NanStd(ControlReadings, data),
                                Cardinality(ControlReadings
                                            \cup {w \in Wells : IsNaN(data[w])}))

\* C8 witness: a well that is both control and excluded contributes to a
\* baseline that differs from the mean of the included control wells
C8_Witness ==
    /\ pc = "subtracted"
    /\ fn = "analyze_all_plates"
    /\ subtract_neg_ctrl
    /\ \E w \in ControlReadings : mask[w] = 0
    /\ \E w \in ControlReadings : mask[w] = 1 /\ data[w] # neg_ctrl_avg

\* C9 (as claimed): the wells that enter a section's statistics are exactly the
\* section's own wells whose masked value is not 0; a well of no section
\* enters none.  (Sections are numbered as the editor lists them; layouts
\* with an empty section, which analyze_all drops, and layouts with a well
\* that is not on the plate are left out.)
C9_SectionMembership ==
    pc = "done" =>
        \A i \in 1 .. Len(sections) :
            (\A k \in 1 .. Len(sections) :
                sections[k] # {} /\ sections[k] \subseteq Wells) =>
                ValidData(fn, masked_data, SectionLimits(sections)[i])
                    = {w \in sections[i] : NonZero(masked_data[w])}

\* C10 (as claimed): the reading of an excluded well that is no control well
\* can be changed to any value, NaN included, without changing any section's
\* mean or standard error.
C10_ExcludedWellIgnored ==
    pc = "done" =>
        \A w \in Wells : (mask[w] = 0 /\ neg_ctrl_mask[w] = 0) =>
            \A v \in Readings :
                RowResults(fn, [data EXCEPT ![w] = v], mask, neg_ctrl_mask,
                           sections, subtract_neg_ctrl) = results

\* neither entry point has a parameter that selects the clamping
\* (analyze_plate(df, plate, assay, mask, neg_ctrl_mask, sections,
\* use_percentage, subtract_neg_ctrl, current_individual_plate);
\* analyze_all_plates(..., use_percentage, show_error_bars, use_bar_chart,
\* subtract_neg_ctrl)), so no call selects it
ClampSelected == FALSE

\* C18 (as claimed): after the subtraction of a baseline a negative corrected
\* cell is 0 when the caller selected clamping and keeps its value when not;
\* no entry point clamps (or not) by itself.
C18_ClampingSelectable ==
    (pc # "row" /\ ~IsNaN(neg_ctrl_avg)) =>
        \A w \in Wells :
            LET x == NumSub(data[w], neg_ctrl_avg)
            IN  data_array[w] = IF ClampSelected /\ Negative(x) THEN Int2Num(0) ELSE x

\* (r1, c1, r2, c2) lies on the 8 x 12 plate
InBounds(lim) ==
    /\ 0 <= lim[1] /\ lim[1] <= LastRow /\ 0 <= lim[3] /\ lim[3] <= LastRow
    /\ 0 <= lim[2] /\ lim[2] <= LastCol /\ 0 <= lim[4] /\ lim[4] <= LastCol

\* C19 (as claimed): a section with a coordinate outside rows 0..7 or columns
\* 0..11 makes the call fail: no timepoint gets section statistics from it.
C19_OutOfBoundsRejected ==
    pc = "done" =>
        \A i \in 1 .. Len(SectionLimits(sections)) : InBounds(SectionLimits(sections)[i])

\* the S1 readings of the end-to-end scenario
ScenarioS1 == <<120, 110, 100, 90>>

\* sum of (x - mean)^2 over the n entries, divided by n - 1, n >= 2
SampleVariance(V, arr) ==
    LET mean == NanMean(V, arr)
        dev2 == [w \in V |-> NumMul(NumSub(arr[w], mean), NumSub(arr[w], mean))]
    IN  NumDiv(SumOver(V, dev2), Int2Num(Cardinality(V) - 1))

\* C20 (as claimed): without subtraction a section's standard error is the
\* sample standard deviation of its values over sqrt(n), i.e.
\* standardError^2 * n = sample variance; for S1 = 120, 110, 100, 90 the mean is
\* 105 and standardError^2 * 4 = 500/3.
C20_SampleStdErr ==
    (pc = "done" /\ ~subtract_neg_ctrl) =>
        /\ LET V   == DOMAIN ScenarioS1
               arr == [w \in V |-> Int2Num(ScenarioS1[w])]
           IN  /\ NanMean(V, arr) = Int2Num(105)
               /\ NumMul(RootSq(SectionStdErr(V, arr)), Int2Num(4)) = Rat(500, 3)
        /\ \A i \in 1 .. Len(results) :
              LET valid == ValidData(fn, masked_data, SectionLimits(sections)[i])
                  n     == Cardinality(valid)
              IN  (n >= 2 /\ NotNaNWells(valid, masked_data) = valid) =>
                      NumMul(RootSq(results[i].std), Int2Num(n))
                          = SampleVariance(valid, masked_data)

\* C21: aggregation is pure.  No step of a run changes the raw grid, the
\* inclusion mask or the control mask (the subtraction and the clamping act on
\* the copy data_array), and the section means and standard errors a run ends
\* with are a function of the grid, the masks, the sections and the options
\* as they are after the run: a second run on them yields the same results.
C21_AggregationPure ==
    [][/\ data' = data
       /\ mask' = mask
       /\ neg_ctrl_mask' = neg_ctrl_mask
       /\ pc' = "done" =>
             results' = RowResults(fn', data', mask', neg_ctrl_mask', sections',
                                   subtract_neg_ctrl')]_vars

\* C21 witness: a run that subtracted a baseline and clamped a cell to 0 has
\* finished: the grid the sections were computed from differs from the raw
\* grid, which still holds the reading below the baseline.
C21_Witness ==
    /\ pc = "done"
    /\ fn = "analyze_plate"
    /\ subtract_neg_ctrl
    /\ ~IsNaN(neg_ctrl_avg)
    /\ \E w \in Wells :
          /\ Negative(NumSub(data[w], neg_ctrl_avg))
          /\ data_array[w] = Int2Num(0)
          /\ data[w] # data_array[w]
    /\ results = RowResults(fn, data, mask, neg_ctrl_mask, sections,
                            subtract_neg_ctrl)

\* create_3d_figure, "Calculando datos desde cero": the points of one timepoint,
\* per section.  The subtraction always clamps (data[data < 0] = 0) and the
\* limits are sliced as given, as in analyze_plate; the error is not
\* propagated, and a section without valid data gets no point at all.
Figure3DPoints(d, m, ncm, limits, subtract) ==
    LET st == NegCtrlStage("analyze_plate", d, ncm, subtract)
        md == TimesMask(st.data_array, m)
    IN  [i \in 1 .. Len(limits) |->
            LET valid == ValidData("analyze_plate", md, limits[i])
            IN  IF valid # {}
                THEN << [value |-> NanMean(valid, md),
                         std   |-> SectionStdErr(valid, md)] >>
                ELSE << >>]

\* C22 (as claimed): for the same grid, masks, sections and options the
\* per-section means of analyze_plate and the points of create_3d_figure's
\* from-scratch path equal the means analyze_all_plates computes for the
\* workbook, corrected values below zero included.
C22_PlottedEqualsExported ==
    pc = "done" =>
        LET limits   == SectionLimits(sections)
            exported == RowResults("analyze_all_plates", data, mask,
                                   neg_ctrl_mask, sections, subtract_neg_ctrl)
            plate    == RowResults("analyze_plate", data, mask,
                                   neg_ctrl_mask, sections, subtract_neg_ctrl)
            points   == Figure3DPoints(data, mask, neg_ctrl_mask, limits,
                                       subtract_neg_ctrl)
        IN  \A i \in 1 .. Len(limits) :
                InBounds(limits[i]) =>
                    /\ plate[i].mean = exported[i].mean
                    /\ points[i] # << >> => points[i][1].value = exported[i].mean

\* C25 (as claimed): the n that divides a section's standard deviation is the
\* number of values that enter its mean, the wells of valid_data that hold a
\* number; a well reading NaN is counted in neither.  (Stated where no
\* control error is added to the section's.)
C25_SampleCountConsistent ==
    (pc = "done" /\ neg_ctrl_std.nan) =>
        \A i \in 1 .. Len(results) :
            LET valid    == ValidData(fn, masked_data, SectionLimits(sections)[i])
                entering == NotNaNWells(valid, masked_data)
            IN  entering # {} =>
                    /\ results[i].mean = NumDiv(SumOver(entering, masked_data),
                                                Int2Num(Cardinality(entering)))
                    /\ results[i].std = RootDivSqrt(NanStd(entering, masked_data),
                                                    Cardinality(entering))

(***************************************************************************)
(* The series of one plate-assay key: res_df after the row loop, then the  *)
(* S1 normalisation (analyze_all_plates only) and the percentage.          *)
(* A row is [hours, neg_ctrl_avg, neg_ctrl_std, S], S[j] = [mean, std] the *)
(* columns Sj and Sj_std.                                                  *)
(***************************************************************************)
\* rows and section columns of the series the model checks
SeriesRows == {1, 2, 3}
SeriesSections == {1, 2}

\* the section means the row loop can leave in a cell
Means == {NaN} \cup {Int2Num(v) : v \in (0 - 1) .. MaxMean}

\* the standard error that goes with a mean: NaN exactly when the mean is
\* NaN (SectionStats); the model gives every cell its own positive error
CellStd(t, j, mean) == IF IsNaN(mean) THEN RootNaN ELSE Root(FALSE, (t + j - 1) * (t + j - 1), 1)

\* the series the row loop can have built, rows in ascending hours
BuiltSeries ==
    { [t \in SeriesRows |->
          [hours        |-> t,
           neg_ctrl_avg |-> Int2Num(t),
           neg_ctrl_std |-> Root(FALSE, 1, 1),
           S            |-> [j \in SeriesSections |->
                                [mean |-> m[t][j], std |-> CellStd(t, j, m[t][j])]]]] :
      m \in [SeriesRows -> [SeriesSections -> Means]] }

\* mutant: the guard forgets np.isnan
CanNormalize_NoNaNCheck(row) == NonZero(row.S[1].mean)

\* "not np.isnan(s1_value) and s1_value != 0"
CanNormalize(row) == ~IsNaN(row.S[1].mean) /\ row.S[1].mean.n # 0

\* mutant: the reference section's own error is not divided by S1
NormalizeRow_S1StdKept(row) ==
    LET s1 == row.S[1].mean
    IN  IF CanNormalize(row)
        THEN [row EXCEPT !.S =
                [j \in DOMAIN row.S |->
                    IF j # 1
                    THEN [mean |-> NumDiv(row.S[j].mean, s1),
                          std  |-> RootDivNum(row.S[j].std, s1)]
                    ELSE [mean |-> Int2Num(1), std |-> row.S[1].std]]]
        ELSE row

\* one iteration of "for i, row in norm_df.iterrows()"
NormalizeRow(row) ==
    LET s1 == row.S[1].mean
    IN  IF CanNormalize(row)
        THEN [row EXCEPT !.S =
                [j \in DOMAIN row.S |->
                    IF j # 1
                    THEN [mean |-> NumDiv(row.S[j].mean, s1),
                          std  |-> RootDivNum(row.S[j].std, s1)]
                    ELSE [mean |-> Int2Num(1),
                          std  |-> IF ~row.S[1].std.nan
                                   THEN RootDivNum(row.S[1].std, s1)
                                   ELSE row.S[1].std]]]
        ELSE row

\* mutant: the loop stops at the first row it cannot normalise
NormalizeWithS1_StopAtBad(df) ==
    [t \in DOMAIN df |->
        IF \E u \in DOMAIN df : u < t /\ ~CanNormalize(df[u])
        THEN df[t] ELSE NormalizeRow(df[t])]

\* mutant: a NaN mean is filled from the timepoint before it
NormalizeWithS1_ForwardFill(df) ==
    [t \in DOMAIN df |->
        NormalizeRow([df[t] EXCEPT !.S =
            [j \in DOMAIN df[t].S |->
                IF IsNaN(df[t].S[j].mean) /\ t > 1 THEN df[t - 1].S[j] ELSE df[t].S[j]]])]

\* norm_df after the loop
NormalizeWithS1(df) == [t \in DOMAIN df |-> NormalizeRow(df[t])]

\* the rows for which "No se puede normalizar" is written to the debug file
Unnormalizable(df) == {t \in DOMAIN df : ~CanNormalize(df[t])}

\* the guard of the percentage: analyze_all_plates tests
\* "base_value != 0 and not np.isnan(base_value)", analyze_plate "base_value != 0"
PercentGuard(f, base) ==
    IF f = "analyze_all_plates" THEN NonZero(base) /\ ~IsNaN(base) ELSE NonZero(base)

\* mutant: a column with a bad base is left as it is
PercentCell_KeepOnBadBase(f, cell, base) ==
    IF PercentGuard(f, base)
    THEN [mean |-> NumMul(NumSub(NumDiv(cell.mean, base), Int2Num(1)), Int2Num(100)),
          std  |-> RootTimes(RootDivNum(cell.std, base), 100)]
    ELSE cell

\* mutant: the percentage of the base instead of the change against it
PercentCell_NoMinusOne(f, cell, base) ==
    IF PercentGuard(f, base)
    THEN [mean |-> NumMul(NumDiv(cell.mean, base), Int2Num(100)),
          std  |-> RootTimes(RootDivNum(cell.std, base), 100)]
    ELSE [mean |-> NaN, std |-> RootNaN]

\* column Sj and Sj_std of row t after the percentage, base = first_values[Sj]
PercentCell(f, cell, base) ==
    IF PercentGuard(f, base)
    THEN [mean |-> NumMul(NumSub(NumDiv(cell.mean, base), Int2Num(1)), Int2Num(100)),
          std  |-> RootTimes(RootDivNum(cell.std, base), 100)]
    ELSE [mean |-> NaN, std |-> RootNaN]

\* mutant: the control mean is turned into a percentage like a section
ApplyPercentage_AlsoControl(f, df, pct) ==
    IF pct /\ Len(df) > 0
    THEN [t \in DOMAIN df |->
            [df[t] EXCEPT
                !.S = [j \in DOMAIN df[t].S |->
                          PercentCell(f, df[t].S[j], df[1].S[j].mean)],
                !.neg_ctrl_avg =
                    PercentCell(f, [mean |-> df[t].neg_ctrl_avg, std |-> RootNaN],
                                df[1].neg_ctrl_avg).mean]]
    ELSE df

\* res_df after "Aplicar calculo de porcentaje si esta habilitado"
ApplyPercentage(f, df, pct) ==
    IF pct /\ Len(df) > 0
    THEN [t \in DOMAIN df |->
            [df[t] EXCEPT !.S =
                [j \in DOMAIN df[t].S |-> PercentCell(f, df[t].S[j], df[1].S[j].mean)]]]
    ELSE df

InitSeries ==
    /\ pc = "built"
    /\ fn \in Functions
    /\ use_percentage \in BOOLEAN
    /\ res_df \in BuiltSeries
    /\ orig_df = <<>>
    /\ norm_df = <<>>
    /\ debug_log = {}
    /\ data = <<>>
    /\ mask = <<>>
    /\ neg_ctrl_mask = <<>>
    /\ sections = <<>>
    /\ subtract_neg_ctrl = FALSE
    /\ data_array = <<>>
    /\ neg_ctrl_avg = NaN
    /\ neg_ctrl_std = RootNaN
    /\ masked_data = <<>>
    /\ results = <<>>
    /\ KeyLoopIdle
    /\ AppIdle

\* mutant: norm_df is res_df itself, not a copy of it
NormalizeS1_InPlace ==
    /\ pc = "built"
    /\ fn = "analyze_all_plates"
    /\ orig_df' = res_df
    /\ norm_df' = NormalizeWithS1(res_df)
    /\ res_df' = NormalizeWithS1(res_df)
    /\ debug_log' = Unnormalizable(res_df)
    /\ pc' = "normalized"
    /\ UNCHANGED <<fn, appvars, rowvars, keyvars, use_percentage>>

\* analyze_all_plates: orig_df = res_df.copy(), norm_df = res_df.copy() and
\* the loop that normalises every row with S1
NormalizeS1 ==
    /\ pc = "built"
    /\ fn = "analyze_all_plates"
    /\ orig_df' = res_df
    /\ norm_df' = NormalizeWithS1(res_df)
    /\ debug_log' = Unnormalizable(res_df)
    /\ pc' = "normalized"
    /\ UNCHANGED <<fn, appvars, rowvars, keyvars, use_percentage, res_df>>

\* "Aplicar calculo de porcentaje si esta habilitado"; analyze_plate comes
\* here straight from the row loop
Percentage ==
    /\ \/ pc = "normalized"
       \/ pc = "built" /\ fn = "analyze_plate"
    /\ res_df' = ApplyPercentage(fn, res_df, use_percentage)
    /\ pc' = "finished"
    /\ UNCHANGED <<fn, appvars, rowvars, keyvars, use_percentage, orig_df, norm_df, debug_log>>

NextSeries == NormalizeS1 \/ Percentage

SpecSeries == InitSeries /\ [][NextSeries]_vars

(***************************************************************************)
(* Properties of the series (specification SpecSeries)                     *)
(***************************************************************************)
BadBase(x) == IsNaN(x) \/ x.n = 0

\* C1: percent-of-baseline poisoning.  When the percentage is applied, every
\* section whose mean at the first timepoint is 0 or NaN gets mean NaN and
\* standard error NaN at every timepoint, whatever its later means; a section
\* with a valid first mean is not touched by that: wherever its mean was a
\* number it still has a number and an error.
C1_PercentPoisoning ==
    [][(Percentage /\ use_percentage) =>
          \A j \in SeriesSections :
              IF BadBase(res_df[1].S[j].mean)
              THEN \A t \in SeriesRows :
                      IsNaN(res_df'[t].S[j].mean) /\ res_df'[t].S[j].std.nan
              ELSE \A t \in SeriesRows :
                      ~IsNaN(res_df[t].S[j].mean) =>
                          (~IsNaN(res_df'[t].S[j].mean) /\ ~res_df'[t].S[j].std.nan)
      ]_vars

\* C1 witness: section 1 starts at mean 0 and has a non-zero mean later, which
\* the percentage turned into NaN, while section 2 kept a number in that row
C1_Witness ==
    /\ pc = "finished"
    /\ use_percentage
    /\ orig_df # <<>>
    /\ orig_df[1].S[1].mean = Int2Num(0)
    /\ ~BadBase(orig_df[2].S[1].mean)
    /\ IsNaN(res_df[2].S[1].mean)
    /\ res_df[2].S[1].std.nan
    /\ ~IsNaN(res_df[2].S[2].mean)

\* S1's mean is 0 at timepoint 2 only (a number other than 0 at 1 and 3)
S1ZeroAtTwoOnly ==
    /\ pc \in {"normalized", "finished"}
    /\ fn = "analyze_all_plates"
    /\ orig_df[2].S[1].mean = Int2Num(0)
    /\ ~BadBase(orig_df[1].S[1].mean)
    /\ ~BadBase(orig_df[3].S[1].mean)

\* some section of row t of the normalised series holds a number
HasNumber(t) == \E j \in SeriesSections : ~IsNaN(norm_df[t].S[j].mean)

\* C2 (as claimed): if S1's mean is 0 at timepoint 2 only, the normalised
\* series holds a non-NaN result at timepoints 1 and 3 and none at timepoint 2.
C2_Original ==
    S1ZeroAtTwoOnly => (HasNumber(1) /\ HasNumber(3) /\ ~HasNumber(2))

\* C2 (amended): if S1's mean is 0 at timepoint 2 only, the rows of timepoints
\* 1 and 3 are normalised (S1 = 1, every section mean that was a number is a
\* number, the value divided by that row's S1), and the row of timepoint 2 is
\* not NaN: it is the un-normalised row, S1 = 0 included, logged as
\* impossible to normalise.
C2_PerTimepointIndependence ==
    S1ZeroAtTwoOnly =>
        /\ \A t \in {1, 3} :
              /\ norm_df[t].S[1].mean = Int2Num(1)
              /\ \A j \in SeriesSections :
                    ~IsNaN(orig_df[t].S[j].mean) => ~IsNaN(norm_df[t].S[j].mean)
              /\ \A j \in SeriesSections \ {1} :
                    norm_df[t].S[j].mean = NumDiv(orig_df[t].S[j].mean, orig_df[t].S[1].mean)
              /\ t \notin debug_log
        /\ norm_df[2] = orig_df[2]
        /\ norm_df[2].S[1].mean = Int2Num(0)
        /\ 2 \in debug_log

\* C2 witness: the case itself, with section 2 holding a number at timepoint 2
\* that differs from what a division by the other rows' S1 would give
C2_Witness ==
    /\ S1ZeroAtTwoOnly
    /\ pc = "normalized"
    /\ ~BadBase(orig_df[2].S[2].mean)
    /\ ~BadBase(orig_df[3].S[2].mean)
    /\ norm_df[3].S[2].mean # orig_df[3].S[2].mean

\* C3: at a timepoint whose S1 mean is NaN or 0 every section mean and
\* standard error of the normalised series is the value computed before, the
\* timepoint is logged as impossible to normalise and its S1 is not the 1.0 of
\* a normalised row; every timepoint with a valid S1 is normalised all the
\* same (S1 = 1.0, not logged, every other section divided by its S1).
C3_UnnormalizableKept ==
    (pc \in {"normalized", "finished"} /\ fn = "analyze_all_plates") =>
        \A t \in SeriesRows :
            IF BadBase(orig_df[t].S[1].mean)
            THEN /\ \A j \in SeriesSections : norm_df[t].S[j] = orig_df[t].S[j]
                 /\ t \in debug_log
                 /\ norm_df[t].S[1].mean # Int2Num(1)
            ELSE /\ norm_df[t].S[1].mean = Int2Num(1)
                 /\ t \notin debug_log
                 /\ \A j \in SeriesSections \ {1} :
                       /\ norm_df[t].S[j].mean
                             = NumDiv(orig_df[t].S[j].mean, orig_df[t].S[1].mean)
                       /\ norm_df[t].S[j].std
                             = RootDivNum(orig_df[t].S[j].std, orig_df[t].S[1].mean)

\* C3 witness: a row with S1 = NaN and a row with S1 = 0 keep section 2's
\* number, between them a row with a valid S1 whose section 2 was rescaled
C3_Witness ==
    /\ pc = "normalized"
    /\ IsNaN(orig_df[1].S[1].mean) /\ ~BadBase(norm_df[1].S[2].mean)
    /\ ~BadBase(orig_df[2].S[1].mean)
    /\ norm_df[2].S[2].mean # orig_df[2].S[2].mean
    /\ orig_df[3].S[1].mean = Int2Num(0) /\ ~BadBase(norm_df[3].S[2].mean)
    /\ debug_log = {1, 3}

\* q is r / x for a mean x # 0: q^2 * x^2 = r^2, and the sign of q is the sign
\* of r turned by the sign of x
IsRootOver(q, r, x) ==
    IF r.nan THEN q.nan
    ELSE /\ ~q.nan
         /\ NumMul(RootSq(q), NumMul(x, x)) = RootSq(r)
         /\ (q.n # 0) => (q.neg = (r.neg # (x.n < 0)))

\* C11: percent-of-baseline formula.  When the percentage is applied, a section
\* whose mean b at the first timepoint (row 1 of the hours-sorted series) is
\* neither NaN nor 0 gets, at every timepoint, mean (value / b - 1) * 100 and
\* standard error (standardError / b) * 100, value and standardError being the
\* un-normalised ones (in analyze_all_plates those saved in orig_df); the first
\* timepoint's mean becomes exactly 0.
C11_PercentFormula ==
    [][(Percentage /\ use_percentage) =>
          /\ (fn = "analyze_all_plates") => (res_df = orig_df)
          /\ \A j \in SeriesSections :
                LET b == res_df[1].S[j].mean
                IN  ~BadBase(b) =>
                      /\ res_df'[1].S[j].mean = Int2Num(0)
                      /\ \A t \in SeriesRows :
                            LET old == res_df[t].S[j]
                                new == res_df'[t].S[j]
                            IN  /\ NumMul(NumAdd(new.mean, Int2Num(100)), b)
                                      = NumMul(old.mean, Int2Num(100))
                                /\ IsRootOver(new.std, RootTimes(old.std, 100), b)
      ]_vars

\* C11 witness: section 1 goes from mean 2 to mean 1, reported as 0 % and
\* -50 %, with the second timepoint's error 2 reported as 100 %
C11_Witness ==
    /\ pc = "finished"
    /\ use_percentage
    /\ fn = "analyze_all_plates"
    /\ orig_df[1].S[1].mean = Int2Num(2)
    /\ orig_df[2].S[1].mean = Int2Num(1)
    /\ res_df[1].S[1].mean = Int2Num(0)
    /\ res_df[2].S[1].mean = Int2Num(0 - 50)
    /\ orig_df[2].S[1].std = Root(FALSE, 4, 1)
    /\ res_df[2].S[1].std = Root(FALSE, 10000, 1)

\* C12: ratio-to-reference formula.  At every timepoint whose S1 mean ref is
\* neither NaN nor 0, the normalised series holds, for every other section,
\* mean = value / ref and standardError = standardError / ref taken from the
\* un-normalised row of that timepoint, and for S1 itself mean exactly 1.0 and
\* standardError = its own un-normalised standard error / ref.
C12_RatioFormula ==
    (pc \in {"normalized", "finished"} /\ fn = "analyze_all_plates") =>
        \A t \in SeriesRows :
            LET ref == orig_df[t].S[1].mean
            IN  ~BadBase(ref) =>
                  /\ norm_df[t].S[1].mean = Int2Num(1)
                  /\ IsRootOver(norm_df[t].S[1].std, orig_df[t].S[1].std, ref)
                  /\ \A j \in SeriesSections \ {1} :
                        /\ NumMul(norm_df[t].S[j].mean, ref) = orig_df[t].S[j].mean
                        /\ IsRootOver(norm_df[t].S[j].std, orig_df[t].S[j].std, ref)

\* C12 witness: a timepoint with S1 = 2 and S2 = 1 is normalised to 1 and 1/2,
\* and S1's error 1 becomes 1/2
C12_Witness ==
    /\ pc = "normalized"
    /\ orig_df[1].S[1].mean = Int2Num(2)
    /\ orig_df[1].S[2].mean = Int2Num(1)
    /\ norm_df[1].S[1].mean = Int2Num(1)
    /\ norm_df[1].S[2].mean = Rat(1, 2)
    /\ orig_df[1].S[1].std = Root(FALSE, 1, 1)
    /\ norm_df[1].S[1].std = Root(FALSE, 1, 4)

\* C13: independent normalised variants.  The S1 normalisation writes norm_df
\* and leaves res_df as built, saving it as orig_df; the percentage rewrites
\* res_df only, from the un-normalised values, and leaves orig_df and norm_df
\* as they are; with use_percentage off res_df stays the un-normalised series.
C13_IndependentVariants ==
    [][/\ NormalizeS1 =>
            /\ res_df' = res_df
            /\ orig_df' = res_df
            /\ norm_df' = NormalizeWithS1(orig_df')
       /\ (Percentage /\ fn = "analyze_all_plates") =>
            /\ orig_df' = orig_df
            /\ norm_df' = norm_df
            /\ res_df = orig_df
            /\ ~use_percentage => res_df' = orig_df
      ]_vars

\* C13 witness: all three series exist side by side and differ: the
\* un-normalised row (S1, S2) = (2, 1) is (1, 1/2) in norm_df, and S2 of the
\* next timepoint is a percentage of that 1 in res_df
C13_Witness ==
    /\ pc = "finished"
    /\ fn = "analyze_all_plates"
    /\ use_percentage
    /\ orig_df[1].S[1].mean = Int2Num(2)
    /\ orig_df[1].S[2].mean = Int2Num(1)
    /\ orig_df[2].S[2].mean = Int2Num(2)
    /\ norm_df[1].S[2].mean = Rat(1, 2)
    /\ res_df[2].S[2].mean = Int2Num(100)

\* C14: the percentage leaves hours, neg_ctrl_avg and neg_ctrl_std of every
\* timepoint as they were; only the section columns are rewritten.
C14_ControlFieldsPassThrough ==
    [][Percentage =>
          \A t \in SeriesRows :
              /\ res_df'[t].hours = res_df[t].hours
              /\ res_df'[t].neg_ctrl_avg = res_df[t].neg_ctrl_avg
              /\ res_df'[t].neg_ctrl_std = res_df[t].neg_ctrl_std
      ]_vars

\* C14 witness: a timepoint whose section mean was rewritten as a percentage
\* still has its hours and its control mean and error
C14_Witness ==
    /\ pc = "finished"
    /\ use_percentage
    /\ fn = "analyze_all_plates"
    /\ orig_df[1].S[1].mean = Int2Num(1)
    /\ orig_df[2].S[1].mean = Int2Num(2)
    /\ res_df[2].S[1].mean = Int2Num(100)
    /\ res_df[2].hours = 2
    /\ res_df[2].neg_ctrl_avg = Int2Num(2)
    /\ res_df[2].neg_ctrl_std = Root(FALSE, 1, 1)

\* the series df with section j of timepoint t turned into NaN
WithNaNAt(df, t, j) ==
    [df EXCEPT ![t].S[j] = [mean |-> NaN, std |-> RootNaN]]

\* C16: no imputation.  A section mean that is NaN at a timepoint of the built
\* series is NaN (with NaN error) at that timepoint of the S1-normalised
\* series and of the percentage series.  And had the section been NaN at
\* timepoint t, every other timepoint of both series would be what it is,
\* unless t is the first timepoint, the base of the percentage.
C16_NoImputation ==
    [][/\ NormalizeS1 =>
            \A t \in SeriesRows : \A j \in SeriesSections :
                /\ IsNaN(res_df[t].S[j].mean) =>
                      (IsNaN(norm_df'[t].S[j].mean) /\ norm_df'[t].S[j].std.nan)
                /\ \A u \in SeriesRows \ {t} :
                      NormalizeWithS1(WithNaNAt(res_df, t, j))[u] = norm_df'[u]
       /\ (Percentage /\ use_percentage) =>
            \A t \in SeriesRows : \A j \in SeriesSections :
                /\ IsNaN(res_df[t].S[j].mean) =>
                      (IsNaN(res_df'[t].S[j].mean) /\ res_df'[t].S[j].std.nan)
                /\ t # 1 =>
                      \A u \in SeriesRows \ {t} :
                          ApplyPercentage(fn, WithNaNAt(res_df, t, j), TRUE)[u] = res_df'[u]
      ]_vars

\* C16 witness: section 2 reads 1, NaN, 2 over the three timepoints with S1
\* valid throughout; the NaN is still there in both series and the third
\* timepoint is computed from its own value
C16_Witness ==
    /\ pc = "finished"
    /\ fn = "analyze_all_plates"
    /\ use_percentage
    /\ \A t \in SeriesRows : orig_df[t].S[1].mean = Int2Num(1)
    /\ orig_df[1].S[2].mean = Int2Num(1)
    /\ IsNaN(orig_df[2].S[2].mean)
    /\ orig_df[3].S[2].mean = Int2Num(2)
    /\ IsNaN(norm_df[2].S[2].mean) /\ IsNaN(res_df[2].S[2].mean)
    /\ norm_df[3].S[2].mean = Int2Num(2)
    /\ res_df[3].S[2].mean = Int2Num(100)

\* C26 (as claimed): the un-normalised standard errors being >= 0, every
\* standard error of the S1-normalised series and of the percentage series is
\* NaN or >= 0, whatever the reference and baseline means are (negative means
\* included).
C26_NormalizedErrorsNonNegative ==
    (\A t \in DOMAIN orig_df : \A j \in SeriesSections : ~orig_df[t].S[j].std.neg)
    => /\ \A t \in DOMAIN norm_df : \A j \in SeriesSections :
              ~norm_df[t].S[j].std.neg
       /\ \A t \in DOMAIN res_df : \A j \in SeriesSections :
              ~res_df[t].S[j].std.neg

(***************************************************************************)
(* The loop over the plate-assay keys ("for key in keys") up to the series *)
(* of each key: the records of the key are selected from df and sorted by  *)
(* hours, a key without records is skipped, and the row loop appends one   *)
(* point per record, in the order of sub.  analyze_plate does the same for *)
(* the one key it is called with, and returns the series instead of        *)
(* writing a sheet.  A record is [key, hours]; a point of a series is      *)
(* [hours, row], row being the record's position in df.                    *)
(***************************************************************************)
KeyNames == {"P1_AB", "P2_AB"}
HourValues == {0, 24}

\* the data frames the parser can have built
DataFrames ==
    UNION {[1 .. n -> [key : KeyNames, hours : HourValues]] : n \in 0 .. MaxRecords}

\* df[(df['plate_no']==plate) & (df['assay']==assay)], as positions in df
RowsOf(frame, key) == {i \in DOMAIN frame : frame[i].key = key}

\* .sort_values('hours'): the default kind is 'quicksort', which orders by
\* hours and promises no order among records of equal hours (what it does with
\* them depends on the length of the frame and on the numpy build); every
\* order by hours is an outcome
SortValuesByHours(frame, I) ==
    {p \in [1 .. Cardinality(I) -> I] :
        /\ \A a, b \in DOMAIN p : a # b => p[a] # p[b]
        /\ \A a, b \in DOMAIN p : a < b => frame[p[a]].hours <= frame[p[b]].hours}

\* res_df of the records in sub: one point per record, in the order of sub
SeriesOf(frame, order) ==
    [i \in DOMAIN order |-> [hours |-> frame[order[i]].hours, row |-> order[i]]]

\* the row loop and the series code are not part of this specification
RowLoopIdle ==
    /\ data = <<>>
    /\ mask = <<>>
    /\ neg_ctrl_mask = <<>>
    /\ sections = <<>>
    /\ subtract_neg_ctrl = FALSE
    /\ data_array = <<>>
    /\ neg_ctrl_avg = NaN
    /\ neg_ctrl_std = RootNaN
    /\ masked_data = <<>>
    /\ results = <<>>
    /\ use_percentage = FALSE
    /\ res_df = <<>>
    /\ orig_df = <<>>
    /\ norm_df = <<>>
    /\ debug_log = {}

InitKeys ==
    /\ pc = "key"
    /\ fn \in Functions
    /\ df_rows \in DataFrames
    /\ keys \in IF fn = "analyze_all_plates"
                THEN {<<"P1_AB", "P2_AB">>}
                ELSE {<<key>> : key \in KeyNames}
    /\ key_index = 1
    /\ sub = <<>>
    /\ sheets = <<>>
    /\ RowLoopIdle
    /\ AppIdle

\* sub = df[...].sort_values('hours')
SelectKey ==
    /\ pc = "key"
    /\ key_index <= Len(keys)
    /\ sub' \in SortValuesByHours(df_rows, RowsOf(df_rows, keys[key_index]))
    /\ pc' = "sorted"
    /\ UNCHANGED <<fn, appvars, rowvars, seriesvars, df_rows, keys, key_index, sheets>>

\* mutant: an empty key ends the loop
SkipEmptyKey_Break ==
    /\ pc = "sorted"
    /\ fn = "analyze_all_plates"
    /\ sub = <<>>
    /\ key_index' = Len(keys) + 1
    /\ pc' = "key"
    /\ UNCHANGED <<fn, appvars, rowvars, seriesvars, df_rows, keys, sub, sheets>>

\* analyze_all_plates: "if sub.empty: ... continue"
SkipEmptyKey ==
    /\ pc = "sorted"
    /\ fn = "analyze_all_plates"
    /\ sub = <<>>
    /\ key_index' = key_index + 1
    /\ pc' = "key"
    /\ UNCHANGED <<fn, appvars, rowvars, seriesvars, df_rows, keys, sub, sheets>>

\* the row loop over sub and what follows it for the key: the series is
\* written to the key's sheet (analyze_plate: returned as text)
BuildKeySeries ==
    /\ pc = "sorted"
    /\ fn = "analyze_plate" \/ sub # <<>>
    /\ sheets' = (keys[key_index] :> SeriesOf(df_rows, sub)) @@ sheets
    /\ key_index' = key_index + 1
    /\ pc' = "key"
    /\ UNCHANGED <<fn, appvars, rowvars, seriesvars, df_rows, keys, sub>>

\* the loop is over: writer.close() and the return
Return ==
    /\ pc = "key"
    /\ key_index > Len(keys)
    /\ pc' = "returned"
    /\ UNCHANGED <<fn, appvars, rowvars, seriesvars, keyvars>>

NextKeys == SelectKey \/ SkipEmptyKey \/ BuildKeySeries \/ Return

SpecKeys == InitKeys /\ [][NextKeys]_vars

(***************************************************************************)
(* Properties of the key loop (specification SpecKeys)                     *)
(***************************************************************************)
\* C15 (as claimed): the series of every key is in ascending hours, and points
\* of equal hours are in the order of their records in df.
C15_TimeOrdering ==
    \A key \in DOMAIN sheets :
        \A a, b \in DOMAIN sheets[key] :
            a < b =>
                /\ sheets[key][a].hours <= sheets[key][b].hours
                /\ sheets[key][a].hours = sheets[key][b].hours
                      => sheets[key][a].row < sheets[key][b].row

MaxTableRows == 4

\* SQL NULL
NULL == "NULL"

HourCells == {"1.0", "2.0", "nan"}
XCells == {1, 2}

\* the index labels of an incoming DataFrame
BatchLabels == {0, 1, 2}

\* incoming DataFrames: rows labelled 0 .. n-1, every choice of keys
BatchFrames ==
    UNION { { [i \in 1 .. n |->
                  [index |-> i - 1, hour |-> h[i], x |-> c[i], value |-> i - 1]] :
              h \in [1 .. n -> HourCells], c \in [1 .. n -> XCells] } :
            n \in 0 .. Cardinality(BatchLabels) }

\* the columns named in primary_keys
PrimaryKey(row) == <<row.hour, row.x>>

\* mutant: duplicated(subset=primary_keys), keep='first'
Duplicated_KeepFirst(frame, row) ==
    \E i \in 1 .. Len(frame) :
        /\ frame[i].index < row.index
        /\ PrimaryKey(frame[i]) = PrimaryKey(row)

\* dup_mask of one row: data_df.duplicated(subset=primary_keys, keep=False);
\* pandas takes two NaN for the same value
Duplicated(frame, row) ==
    \E i \in 1 .. Len(frame) :
        /\ frame[i].index # row.index
        /\ PrimaryKey(frame[i]) = PrimaryKey(row)

\* detect_internal_duplicates(data_df) -> (unique_df, duplicates_df)
DetectInternalDuplicates(frame) ==
    [unique_df     |-> SelectSeq(frame, LAMBDA row : ~Duplicated(frame, row)),
     duplicates_df |-> SelectSeq(frame, LAMBDA row : Duplicated(frame, row))]

\* a parameter as sqlite3 binds it: a float NaN is stored as NULL
Bind(v) == IF v = "nan" THEN NULL ELSE v

\* col = ? in SQL: never true when either side is NULL
SqlEq(stored, param) == stored # NULL /\ param # NULL /\ stored = param

\* "WHERE date=? AND hour=? AND plate=? AND x=? AND y=? AND assay=?"
Matches(stored, row) ==
    /\ SqlEq(stored.hour, Bind(row.hour))
    /\ stored.x = row.x

\* cursor.fetchone(): the first stored row matching, if any
HasMatch(tbl, row) == \E i \in 1 .. Len(tbl) : Matches(tbl[i], row)

FirstMatch(tbl, row) ==
    tbl[CHOOSE i \in 1 .. Len(tbl) :
            /\ Matches(tbl[i], row)
            /\ \A k \in 1 .. i - 1 : ~Matches(tbl[k], row)]

\* find_conflicts(data_df) ->
\* (non_conflicts, incoming_conflicts, existing_conflicts)
FindConflicts(tbl, frame) ==
    LET conflicting == SelectSeq(frame, LAMBDA row : HasMatch(tbl, row))
    IN  [non_conflicts      |-> SelectSeq(frame, LAMBDA row : ~HasMatch(tbl, row)),
         incoming_conflicts |-> conflicting,
         existing_conflicts |-> [i \in 1 .. Len(conflicting) |->
                                    FirstMatch(tbl, conflicting[i])]]

\* the row as INSERT stores it
StoredRow(row) == [hour |-> Bind(row.hour), x |-> row.x, value |-> row.value]

\* PRIMARY KEY (date, hour, plate, x, y, assay) of create_table: the columns
\* are not declared NOT NULL, and the unique index SQLite builds for the key
\* takes every NULL for a different value
ViolatesPrimaryKey(tbl, row) == HasMatch(tbl, row)

\* cursor.executemany(INSERT ...): the rows one after the other, up to the
\* first that violates the key
RECURSIVE ExecuteMany(_, _)
ExecuteMany(tbl, frame) ==
    IF frame = <<>> THEN [table |-> tbl, raised |-> "None"]
    ELSE IF ViolatesPrimaryKey(tbl, Head(frame))
         THEN [table |-> tbl, raised |-> "IntegrityError"]
         ELSE ExecuteMany(Append(tbl, StoredRow(Head(frame))), Tail(frame))

\* insert_records(data_df): "with get_db_connection() as conn" commits when
\* the block ends and rolls back when it raises
InsertRecords(tbl, frame) ==
    LET done == ExecuteMany(tbl, frame)
    IN  IF done.raised = "None" THEN done
        ELSE [table |-> tbl, raised |-> done.raised]

\* the frames a caller holds and can pass on
ArgFrames == {data_df, unique_df, non_conflicts}

Called(name, a) ==
    /\ op' = name
    /\ arg' = a
    /\ prev_op' = op

\* nothing but the database and the call record changes
DbFrame == UNCHANGED <<pc, fn, rowvars, seriesvars, keyvars, editorvars, recentvars>>

InitDb ==
    /\ pc = "db"
    /\ fn = "database"
    /\ RowLoopIdle /\ KeyLoopIdle /\ EditorIdle /\ RecentIdle /\ NoCall
    /\ data_df \in BatchFrames
    /\ table = <<>>
    /\ unique_df = <<>>
    /\ duplicates_df = <<>>
    /\ non_conflicts = <<>>
    /\ incoming_conflicts = <<>>
    /\ existing_conflicts = <<>>
    /\ raised = "None"

detect_internal_duplicates ==
    /\ pc = "db"
    /\ LET res == DetectInternalDuplicates(data_df)
       IN  /\ unique_df' = res.unique_df
           /\ duplicates_df' = res.duplicates_df
    /\ Called("detect_internal_duplicates", data_df)
    /\ raised' = "None"
    /\ UNCHANGED <<data_df, table, non_conflicts, incoming_conflicts,
                   existing_conflicts>>
    /\ DbFrame

find_conflicts ==
    /\ pc = "db"
    /\ \E frame \in ArgFrames :
          LET res == FindConflicts(table, frame)
          IN  /\ non_conflicts' = res.non_conflicts
              /\ incoming_conflicts' = res.incoming_conflicts
              /\ existing_conflicts' = res.existing_conflicts
              /\ Called("find_conflicts", frame)
    /\ raised' = "None"
    /\ UNCHANGED <<data_df, table, unique_df, duplicates_df>>
    /\ DbFrame

insert_records ==
    /\ pc = "db"
    /\ \E frame \in ArgFrames :
          /\ Len(table) + Len(frame) <= MaxTableRows
          /\ LET res == InsertRecords(table, frame)
             IN  /\ table' = res.table
                 /\ raised' = res.raised
          /\ Called("insert_records", frame)
    /\ UNCHANGED <<data_df, unique_df, duplicates_df, non_conflicts,
                   incoming_conflicts, existing_conflicts>>
    /\ DbFrame

delete_all_records ==
    /\ pc = "db"
    /\ table # <<>>
    /\ table' = <<>>
    /\ raised' = "None"
    /\ Called("delete_all_records", <<>>)
    /\ UNCHANGED <<data_df, unique_df, duplicates_df, non_conflicts,
                   incoming_conflicts, existing_conflicts>>
    /\ DbFrame

NextDb ==
    \/ detect_internal_duplicates
    \/ find_conflicts
    \/ insert_records
    \/ delete_all_records

SpecDb == InitDb /\ [][NextDb]_vars

(***************************************************************************)
(* Properties of the database functions (specification SpecDb)             *)
(***************************************************************************)
\* the rows of a DataFrame, as a set
FrameRows(frame) == {frame[i] : i \in 1 .. Len(frame)}

\* how many rows of the DataFrame carry the primary key of the row
Occurrences(frame, row) ==
    Cardinality({i \in 1 .. Len(frame) : PrimaryKey(frame[i]) = PrimaryKey(row)})

\* C24: detect_internal_duplicates partitions the incoming rows by primary key.
\* duplicates_df holds exactly the rows whose key occurs more than once in the
\* batch (every occurrence), unique_df exactly the rows whose key occurs once;
\* no row is in both and none is lost or repeated.
C24_DuplicatePartition ==
    op = "detect_internal_duplicates" =>
        /\ FrameRows(duplicates_df)
              = {row \in FrameRows(arg) : Occurrences(arg, row) > 1}
        /\ FrameRows(unique_df)
              = {row \in FrameRows(arg) : Occurrences(arg, row) = 1}
        /\ FrameRows(duplicates_df) \cap FrameRows(unique_df) = {}
        /\ Len(duplicates_df) + Len(unique_df) = Len(arg)

\* C24 witness: the case of verify_conflict.py: a batch of three rows, two of
\* them with the same key; both occurrences are reported as duplicates and the
\* third row is the unique one.
C24_Witness ==
    /\ op = "detect_internal_duplicates"
    /\ Len(arg) = 3
    /\ PrimaryKey(arg[1]) = PrimaryKey(arg[2])
    /\ PrimaryKey(arg[3]) # PrimaryKey(arg[1])
    /\ duplicates_df = <<arg[1], arg[2]>>
    /\ unique_df = <<arg[3]>>

\* no two rows of the DataFrame carry the same primary key
PairwiseDistinctKeys(frame) ==
    \A i, k \in 1 .. Len(frame) :
        i # k => PrimaryKey(frame[i]) # PrimaryKey(frame[k])

\* C23 (as claimed): insert_records of rows with pairwise distinct keys that
\* find_conflicts reports as non-conflicting makes a second find_conflicts over
\* the same rows report every one of them as conflicting, none as
\* non-conflicting.
C23_ConflictAfterInsert ==
    [][(/\ op' = "insert_records"
        /\ PairwiseDistinctKeys(arg')
        /\ FindConflicts(table, arg').non_conflicts = arg')
       => LET after == FindConflicts(table', arg')
          IN  /\ after.incoming_conflicts = arg'
              /\ after.non_conflicts = << >>
              /\ Len(after.incoming_conflicts) = Len(arg')]_vars

\* the key of the row is the key of a stored row, column by column
KeyPresent(tbl, row) ==
    \E i \in 1 .. Len(tbl) :
        /\ tbl[i].hour = StoredRow(row).hour
        /\ tbl[i].x = row.x

\* C29 (as claimed): insert_records of a batch with a row whose primary key is
\* already in plate_readings, or is repeated within the batch, raises an
\* integrity error and leaves the table exactly as it was.
C29_InsertNeverOverwrites ==
    [][(/\ op' = "insert_records"
        /\ \/ \E i \in 1 .. Len(arg') : KeyPresent(table, arg'[i])
           \/ ~PairwiseDistinctKeys(arg'))
       => /\ raised' = "IntegrityError"
          /\ table' = table]_vars

(***************************************************************************)
(* src/modules/config.py: the list of recent files.  AppMenu's             *)
(* load_specific_file calls add_recent_file once for every file it parsed. *)
(***************************************************************************)
MaxAdds == 6

\* self.max_recent_files
max_recent_files == 5

\* the files the user can load: one more than the list can hold
Paths == {"a.xlsx", "b.xlsx", "c.xlsx", "d.xlsx", "e.xlsx", "f.xlsx"}

\* list.remove(x): the list without the first item equal to x
RECURSIVE RemoveFirst(_, _)
RemoveFirst(list, path) ==
    IF list = <<>> THEN <<>>
    ELSE IF Head(list) = path THEN Tail(list)
         ELSE <<Head(list)>> \o RemoveFirst(Tail(list), path)

\* mutant: a path already listed is not removed before it is inserted
AddRecentFile_NoRemove(list, path) ==
    LET inserted == <<path>> \o list
    IN  IF Len(inserted) > max_recent_files
        THEN SubSeq(inserted, 1, max_recent_files)
        ELSE inserted

\* Config.add_recent_file: recent_files after the call
AddRecentFile(list, path) ==
    LET removed  == IF \E i \in 1 .. Len(list) : list[i] = path
                    THEN RemoveFirst(list, path)
                    ELSE list
        inserted == <<path>> \o removed
    IN  IF Len(inserted) > max_recent_files
        THEN SubSeq(inserted, 1, max_recent_files)
        ELSE inserted

InitRecent ==
    /\ pc = "menu"
    /\ fn = "config"
    /\ RowLoopIdle /\ KeyLoopIdle /\ DbIdle /\ EditorIdle /\ NoCall
    /\ recent_files = <<>>
    /\ added = <<>>

add_recent_file ==
    /\ pc = "menu"
    /\ Len(added) < MaxAdds
    /\ \E path \in Paths :
          /\ recent_files' = AddRecentFile(recent_files, path)
          /\ added' = Append(added, path)
          /\ Called("add_recent_file", path)
    /\ UNCHANGED <<pc, fn, rowvars, seriesvars, keyvars, dbvars, editorvars>>

NextRecent == add_recent_file

SpecRecent == InitRecent /\ [][NextRecent]_vars

\* the paths of a call history, each once, the most recently added first
RECURSIVE MostRecentFirst(_)
MostRecentFirst(history) ==
    IF history = <<>> THEN <<>>
    ELSE LET last    == history[Len(history)]
             earlier == SubSeq(history, 1, Len(history) - 1)
         IN  <<last>> \o MostRecentFirst(SelectSeq(earlier, LAMBDA x : x # last))

\* C30: recent-files list.  After any sequence of add_recent_file calls from the
\* empty list, recent_files holds no path twice, holds at most max_recent_files
\* (5) paths, and lists the paths added in most-recently-added-first order (cut
\* after the fifth), the last added path at index 0.
C30_RecentFilesInvariant ==
    /\ \A i, k \in 1 .. Len(recent_files) :
          i # k => recent_files[i] # recent_files[k]
    /\ Len(recent_files) <= max_recent_files
    /\ LET order == MostRecentFirst(added)
       IN  recent_files = SubSeq(order, 1, Min(Len(order), max_recent_files))
    /\ added # <<>> => recent_files[1] = added[Len(added)]

\* C30 witness: six different files were added: the list is full, the file
\* added first has dropped out, the one added last is at the front and the
\* one added second is at the end.
C30_Witness ==
    /\ Len(added) = 6
    /\ Cardinality({added[i] : i \in 1 .. Len(added)}) = 6
    /\ Len(recent_files) = max_recent_files
    /\ \A i \in 1 .. Len(recent_files) : recent_files[i] # added[1]
    /\ recent_files[1] = added[6]
    /\ recent_files[5] = added[2]

(***************************************************************************)
(* src/ui/app.py, src/ui/menu.py: the mask editor.  PlateMaskApp keeps one *)
(* inclusion mask and one control mask per plate-assay key, Config keeps a *)
(* copy of each.  A mask is a numpy array, an object that several slots of *)
(* the four dictionaries could hold at once: alias lists the groups of     *)
(* slots that hold the same array, and a write through one slot is a write *)
(* through every slot of its group.  The plate is the small plate Wells.   *)
(***************************************************************************)
\* the handler calls of one behaviour of the editor
MaxEdits == 5

\* np.ones((8, 12)) and np.zeros((8, 12))
Ones == [w \in Wells |-> 1]
Zeros == [w \in Wells |-> 0]

\* the editor's state as one record
Editor ==
    [selected_key          |-> selected_key,
     section_wells         |-> section_wells,
     mask_map              |-> mask_map,
     neg_ctrl_mask_map     |-> neg_ctrl_mask_map,
     config_masks          |-> config_masks,
     config_neg_ctrl_masks |-> config_neg_ctrl_masks,
     config_sections       |-> config_sections,
     auto_exclude_orphaned |-> auto_exclude_orphaned,
     alias                 |-> alias]

\* the slots <<dictionary, key>> that hold the array object of the slot
SameArray(e, slot) ==
    IF \E g \in e.alias : slot \in g
    THEN CHOOSE g \in e.alias : slot \in g
    ELSE {slot}

\* arr[i, j] = v for the cells of W, arr being the array object of the slot
SetCells(e, slot, W, v) ==
    LET grp == SameArray(e, slot)
        upd(f) == [k \in DOMAIN e[f] |->
                      IF <<f, k>> \in grp
                      THEN [w \in Wells |-> IF w \in W THEN v ELSE e[f][k][w]]
                      ELSE e[f][k]]
    IN  [e EXCEPT !.mask_map              = upd("mask_map"),
                  !.neg_ctrl_mask_map     = upd("neg_ctrl_mask_map"),
                  !.config_masks          = upd("config_masks"),
                  !.config_neg_ctrl_masks = upd("config_neg_ctrl_masks")]

\* the groups once the slot holds another object
Unshared(groups, slot) ==
    {g \in {h \ {slot} : h \in groups} : Cardinality(g) >= 2}

\* d[key] = value, value being a new array object (np.ones(...), arr.copy())
AssignNew(e, slot, value) ==
    LET f == slot[1]
    IN  [e EXCEPT ![f]    = [k \in DOMAIN e[f] \cup {slot[2]} |->
                                IF k = slot[2] THEN value ELSE e[f][k]],
                  !.alias = Unshared(e.alias, slot)]

\* d[key] = arr, arr being the array object another slot holds
AssignSame(e, slot, other) ==
    IF slot = other \/ slot \in SameArray(e, other) THEN e
    ELSE LET e1 == AssignNew(e, slot, e[other[1]][other[2]])
         IN  [e1 EXCEPT !.alias = {g \in e1.alias : other \notin g}
                                     \cup {SameArray(e1, other) \cup {slot}}]

\* all_wells - section_wells: the wells of the plate that are in no section
OrphanedWells(secs) == Wells \ UNION {secs[i] : i \in 1 .. Len(secs)}

\* build_grid, as far as it changes the editor's state: with auto-exclusion the
\* orphaned wells of the selected key are excluded, without it they become a
\* section "Orphaned Wells"
BuildGrid(e, ks) ==
    IF ks = <<>> \/ e.selected_key = "None" THEN e
    ELSE LET orphaned == OrphanedWells(e.section_wells)
             slot     == <<"mask_map", e.selected_key>>
             e1       == IF e.selected_key \in DOMAIN e.mask_map THEN e
                         ELSE AssignNew(e, slot, Ones)
         IN  IF orphaned = {} THEN e
             ELSE IF e.auto_exclude_orphaned
                  THEN SetCells(e1, slot, orphaned, 0)
                  ELSE [e EXCEPT !.section_wells = Append(@, orphaned)]

\* _exclude_orphaned_wells, first part: "Exclude orphaned wells in all plates"
RECURSIVE ExcludeInAll(_, _, _)
ExcludeInAll(e, ks, orphaned) ==
    IF ks = <<>> THEN e
    ELSE LET slot == <<"mask_map", Head(ks)>>
             e1   == IF Head(ks) \in DOMAIN e.mask_map THEN e
                     ELSE AssignNew(e, slot, Ones)
         IN  ExcludeInAll(SetCells(e1, slot, orphaned, 0), Tail(ks), orphaned)

\* _exclude_orphaned_wells, second part: "Initialize masks and grays from
\* config if available", key by key, and the orphaned wells excluded again
RECURSIVE InitializeFromConfig(_, _)
InitializeFromConfig(e, ks) ==
    IF ks = <<>> THEN e
    ELSE LET key == Head(ks)
             e1  == AssignNew(e, <<"mask_map", key>>,
                              IF key \in DOMAIN e.config_masks
                              THEN e.config_masks[key] ELSE Ones)
             e2  == AssignNew(e1, <<"neg_ctrl_mask_map", key>>,
                              IF key \in DOMAIN e.config_neg_ctrl_masks
                              THEN e.config_neg_ctrl_masks[key] ELSE Zeros)
             e3  == IF e.auto_exclude_orphaned
                    THEN SetCells(e2, <<"mask_map", key>>,
                                  OrphanedWells(e.section_wells), 0)
                    ELSE e2
         IN  InitializeFromConfig(e3, Tail(ks))

\* _exclude_orphaned_wells: returns at once without keys, without sections or
\* without orphaned wells
ExcludeOrphanedWells(e, ks) ==
    LET orphaned == OrphanedWells(e.section_wells)
    IN  IF ks = <<>> \/ e.section_wells = <<>> \/ orphaned = {} THEN e
        ELSE InitializeFromConfig(ExcludeInAll(e, ks, orphaned), ks)

\* the six default sections cover the plate
DefaultSectionWells == << Wells >>

\* the sections of the configuration that have wells
ValidSections(secs) == SelectSeq(secs, LAMBDA wells : wells # {})

\* "Ensure default masks ... for all plate-assay keys": dict.setdefault
RECURSIVE SetDefaultMasks(_, _)
SetDefaultMasks(e, ks) ==
    IF ks = <<>> THEN e
    ELSE LET key == Head(ks)
             e1  == IF key \in DOMAIN e.mask_map THEN e
                    ELSE AssignNew(e, <<"mask_map", key>>, Ones)
             e2  == IF key \in DOMAIN e1.neg_ctrl_mask_map THEN e1
                    ELSE AssignNew(e1, <<"neg_ctrl_mask_map", key>>, Zeros)
         IN  SetDefaultMasks(e2, Tail(ks))

\* _initialize_data: the sections of the configuration or the default ones,
\* default masks, and the orphaned wells when auto-exclusion is on
InitializeData(e, ks) ==
    LET secs == IF ValidSections(e.config_sections) # <<>>
                THEN ValidSections(e.config_sections)
                ELSE DefaultSectionWells
        e1   == SetDefaultMasks([e EXCEPT !.section_wells = secs], ks)
    IN  IF e.auto_exclude_orphaned THEN ExcludeOrphanedWells(e1, ks) ELSE e1

\* on_select: the key found for the chosen plate-assay is selected and the
\* grid is built for it
OnSelect(e, ks, key) == BuildGrid([e EXCEPT !.selected_key = key], ks)

\* PlateMaskApp.load_file: _initialize_data, then on_date_select selects the
\* first plate-assay
LoadFile(e, ks) == OnSelect(InitializeData(e, ks), ks, ks[1])

\* AppMenu.on_sections_confirmed
OnSectionsConfirmed(e, ks, layout) ==
    BuildGrid([e EXCEPT !.section_wells = layout, !.config_sections = layout], ks)

\* toggle_well(i, j): m[i,j] = 0 if m[i,j] == 1 else 1, then
\* config.update_masks(selected_key, mask), which stores mask.copy()
ToggleWell(e, w) ==
    LET key == e.selected_key
        e1  == SetCells(e, <<"mask_map", key>>, {w},
                        IF e.mask_map[key][w] = 1 THEN 0 ELSE 1)
    IN  AssignNew(e1, <<"config_masks", key>>, e1.mask_map[key])

\* toggle_negative_control(i, j)
ToggleNegativeControl(e, w) ==
    LET key == e.selected_key
        e1  == SetCells(e, <<"neg_ctrl_mask_map", key>>, {w},
                        IF e.neg_ctrl_mask_map[key][w] = 1 THEN 0 ELSE 1)
    IN  AssignNew(e1, <<"config_neg_ctrl_masks", key>>, e1.neg_ctrl_mask_map[key])

\* key.split("_") of the keys of the model
SplitKey(key) == IF key = "P1_AB" THEN <<"P1", "AB">> ELSE <<"P2", "AB">>

\* the assays of the loaded file and one it does not hold
Assays == {"AB", "ROS"}

\* mutant: the target keys get the selected key's arrays themselves
RECURSIVE CopyMasks_SameArray(_, _, _, _)
CopyMasks_SameArray(e, targets, current_mask, current_neg_ctrl_mask) ==
    IF targets = <<>> THEN e
    ELSE LET key == Head(targets)
             e1  == AssignSame(e, <<"mask_map", key>>,
                               <<"mask_map", e.selected_key>>)
             e2  == AssignSame(e1, <<"neg_ctrl_mask_map", key>>,
                               <<"neg_ctrl_mask_map", e.selected_key>>)
         IN  CopyMasks_SameArray(e2, Tail(targets), current_mask,
                                 current_neg_ctrl_mask)

\* "self.mask_map[key] = current_mask.copy()" and the same for the control
\* mask, for every target key
RECURSIVE CopyMasks(_, _, _, _)
CopyMasks(e, targets, current_mask, current_neg_ctrl_mask) ==
    IF targets = <<>> THEN e
    ELSE LET key == Head(targets)
             e1  == AssignNew(e, <<"mask_map", key>>, current_mask)
             e2  == AssignNew(e1, <<"neg_ctrl_mask_map", key>>,
                              current_neg_ctrl_mask)
         IN  CopyMasks(e2, Tail(targets), current_mask, current_neg_ctrl_mask)

\* copy_to_same_plate: the keys with the selected key's plate and assay
CopyToSamePlate(e, ks) ==
    LET targets == SelectSeq(ks, LAMBDA key : SplitKey(key) = SplitKey(e.selected_key))
    IN  BuildGrid(CopyMasks(e, targets, e.mask_map[e.selected_key],
                            e.neg_ctrl_mask_map[e.selected_key]), ks)

\* copy_to_assay(target_assay): the keys of that assay; the grid is rebuilt
\* when the selected key is one of them
CopyToAssay(e, ks, target_assay) ==
    LET targets == SelectSeq(ks, LAMBDA key : SplitKey(key)[2] = target_assay)
        e1      == CopyMasks(e, targets, e.mask_map[e.selected_key],
                             e.neg_ctrl_mask_map[e.selected_key])
    IN  IF SplitKey(e.selected_key)[2] = target_assay THEN BuildGrid(e1, ks) ELSE e1

\* the section lists the section editor can confirm
EditorLayouts ==
    { << Wells >>,
      << {<<0, 0>>, <<0, 1>>} >>,
      << {<<0, 0>>}, {<<0, 2>>} >>,
      << >> }

\* the editor's state after a handler, one more handler call made
EditorBecomes(e) ==
    /\ selected_key' = e.selected_key
    /\ section_wells' = e.section_wells
    /\ mask_map' = e.mask_map
    /\ neg_ctrl_mask_map' = e.neg_ctrl_mask_map
    /\ config_masks' = e.config_masks
    /\ config_neg_ctrl_masks' = e.config_neg_ctrl_masks
    /\ config_sections' = e.config_sections
    /\ auto_exclude_orphaned' = e.auto_exclude_orphaned
    /\ alias' = e.alias
    /\ edits' = edits + 1

\* nothing but the editor, the keys and the call record changes
EditorFrame ==
    UNCHANGED <<pc, fn, rowvars, seriesvars, df_rows, key_index, sub, sheets,
                dbvars, recentvars>>

InitEditor ==
    /\ pc = "editor"
    /\ fn = "PlateMaskApp"
    /\ RowLoopIdle /\ KeyLoopIdle /\ DbIdle /\ RecentIdle /\ NoCall
    /\ selected_key = "None"
    /\ section_wells = <<>>
    /\ mask_map = <<>>
    /\ neg_ctrl_mask_map = <<>>
    /\ config_masks = <<>>
    /\ config_neg_ctrl_masks = <<>>
    /\ config_sections = <<>>
    /\ auto_exclude_orphaned \in BOOLEAN
    /\ alias = {}
    /\ edits = 0

load_file ==
    /\ pc = "editor"
    /\ edits < MaxEdits
    /\ keys' = <<"P1_AB", "P2_AB">>
    /\ EditorBecomes(LoadFile(Editor, keys'))
    /\ Called("load_file", <<>>)
    /\ EditorFrame

on_select ==
    /\ pc = "editor"
    /\ edits < MaxEdits
    /\ \E i \in 1 .. Len(keys) :
          /\ EditorBecomes(OnSelect(Editor, keys, keys[i]))
          /\ Called("on_select", keys[i])
    /\ UNCHANGED keys
    /\ EditorFrame

on_sections_confirmed ==
    /\ pc = "editor"
    /\ edits < MaxEdits
    /\ \E layout \in EditorLayouts :
          /\ EditorBecomes(OnSectionsConfirmed(Editor, keys, layout))
          /\ Called("on_sections_confirmed", layout)
    /\ UNCHANGED keys
    /\ EditorFrame

toggle_well ==
    /\ pc = "editor"
    /\ edits < MaxEdits
    /\ selected_key # "None"
    /\ \E w \in Wells :
          /\ EditorBecomes(ToggleWell(Editor, w))
          /\ Called("toggle_well", w)
    /\ UNCHANGED keys
    /\ EditorFrame

toggle_negative_control ==
    /\ pc = "editor"
    /\ edits < MaxEdits
    /\ selected_key # "None"
    /\ \E w \in Wells :
          /\ EditorBecomes(ToggleNegativeControl(Editor, w))
          /\ Called("toggle_negative_control", w)
    /\ UNCHANGED keys
    /\ EditorFrame

copy_to_same_plate ==
    /\ pc = "editor"
    /\ edits < MaxEdits
    /\ selected_key # "None"
    /\ EditorBecomes(CopyToSamePlate(Editor, keys))
    /\ Called("copy_to_same_plate", <<>>)
    /\ UNCHANGED keys
    /\ EditorFrame

copy_to_assay ==
    /\ pc = "editor"
    /\ edits < MaxEdits
    /\ selected_key # "None"
    /\ \E target_assay \in Assays :
          /\ EditorBecomes(CopyToAssay(Editor, keys, target_assay))
          /\ Called("copy_to_assay", target_assay)
    /\ UNCHANGED keys
    /\ EditorFrame

\* analyze_all hands mask_map and neg_ctrl_mask_map to analyze_all_plates
analyze_all ==
    /\ pc = "editor"
    /\ edits < MaxEdits
    /\ keys # <<>>
    /\ Called("analyze_all", <<>>)
    /\ EditorBecomes(Editor)
    /\ UNCHANGED keys
    /\ EditorFrame

NextEditor ==
    \/ load_file
    \/ on_select
    \/ on_sections_confirmed
    \/ toggle_well
    \/ toggle_negative_control
    \/ copy_to_same_plate
    \/ copy_to_assay
    \/ analyze_all

SpecEditor == InitEditor /\ [][NextEditor]_vars

\* C27: with auto-exclusion enabled, when analyze_all runs every well that is
\* in no section has inclusion mask 0 for every plate-assay key
C27_OrphansExcluded ==
    (op = "analyze_all" /\ auto_exclude_orphaned) =>
        \A i \in 1 .. Len(keys) : \A w \in OrphanedWells(section_wells) :
            mask_map[keys[i]][w] = 0

\* the keys other than the selected one keep the entry the dictionary had
OtherKeysKept(before, after) ==
    \A key \in DOMAIN before \ {selected_key} :
        key \in DOMAIN after /\ after[key] = before[key]

\* the array differs from the one before in the cell w and nowhere else
OnlyCellChanged(before, after, w) ==
    /\ after[w] # before[w]
    /\ \A x \in Wells \ {w} : after[x] = before[x]

\* C28: toggle_well(i, j) changes cell (i, j) of the selected key's inclusion
\* mask and toggle_negative_control(i, j) cell (i, j) of its control mask, and
\* nothing else of the masks of the editor: not the other mask of the key, no
\* mask of another key, no copy the configuration keeps for another key
C28_MaskEditsLocal ==
    [][/\ op' = "toggle_well" =>
             /\ OnlyCellChanged(mask_map[selected_key], mask_map'[selected_key], arg')
             /\ neg_ctrl_mask_map' = neg_ctrl_mask_map
       /\ op' = "toggle_negative_control" =>
             /\ OnlyCellChanged(neg_ctrl_mask_map[selected_key],
                                neg_ctrl_mask_map'[selected_key], arg')
             /\ mask_map' = mask_map
       /\ op' \in {"toggle_well", "toggle_negative_control"} =>
             /\ OtherKeysKept(mask_map, mask_map')
             /\ OtherKeysKept(neg_ctrl_mask_map, neg_ctrl_mask_map')
             /\ OtherKeysKept(config_masks, config_masks')
             /\ OtherKeysKept(config_neg_ctrl_masks, config_neg_ctrl_masks')]_vars

\* a well was toggled right after copy_to_assay gave another key the selected
\* key's masks: the other key holds the copied control mask and its inclusion
\* mask differs from the selected key's in the toggled well only
C28_Witness ==
    /\ prev_op = "copy_to_assay"
    /\ op = "toggle_well"
    /\ \E i \in 1 .. Len(keys) :
          /\ keys[i] # selected_key
          /\ neg_ctrl_mask_map[keys[i]] = neg_ctrl_mask_map[selected_key]
          /\ neg_ctrl_mask_map[keys[i]] # Zeros
          /\ OnlyCellChanged(mask_map[keys[i]], mask_map[selected_key], arg)

====
